---- MODULE Spec2Model ----
(***************************************************************************)
(* Breadcrumbs2 (packages/popover2/src/breadcrumbs2.tsx): the render pass  *)
(* of the breadcrumb list controller over the OverflowList collaborator.   *)
(*                                                                         *)
(* JavaScript values are modelled as follows.                              *)
(*   - An optional value is a sequence of length at most one: <<>> is      *)
(*     undefined, <<v>> is the value v.                                    *)
(*   - An object is a function from the keys it has to their values, so a  *)
(*     key that is absent differs from a key that is present and           *)
(*     undefined, as it does under object spread.                          *)
(*   - A breadcrumb descriptor is an object on the heap; the items array   *)
(*     holds references, and === compares references.                      *)
(***************************************************************************)
EXTENDS Integers, Sequences, FiniteSets, TLC

VARIABLES props, heap, pc, passes, olProps, visible, overflow, rendered,
          overflowEl, prevOverflowEl

vars == <<props, heap, pc, passes, olProps, visible, overflow, rendered,
          overflowEl, prevOverflowEl>>

-----------------------------------------------------------------------------
(* Bounds *)

MaxLen == 3

NumRefs == 3

MaxPasses == 2

-----------------------------------------------------------------------------
(* JavaScript values *)

None == <<>>

Some(v) == <<v>>

EmptyObj == <<>>

Get(o, k) == IF k \in DOMAIN o THEN o[k] ELSE None

Merge(a, b) ==
    [k \in DOMAIN a \cup DOMAIN b |-> IF k \in DOMAIN b THEN b[k] ELSE a[k]]

Restrict(o, S) == [k \in S \cap DOMAIN o |-> o[k]]

ApplyDefaults(o, d) ==
    [k \in DOMAIN o \cup DOMAIN d |->
        IF k \in DOMAIN d /\ Get(o, k) = None THEN d[k] ELSE o[k]]

Reverse(s) == [i \in 1..Len(s) |-> s[Len(s) + 1 - i]]

Min(a, b) == IF a <= b THEN a ELSE b

Refs == 1..NumRefs

Boundary == {"start", "end"}

BREADCRUMBS == "bp4-breadcrumbs"

BREADCRUMBS_COLLAPSED == "bp4-breadcrumbs-collapsed"

-----------------------------------------------------------------------------
(* Collaborators from @blueprintjs/core *)

classNames(args) ==
    LET present == SelectSeq(args, LAMBDA a : a # None)
    IN  [i \in 1..Len(present) |-> present[i][1]]

NonHTMLProps == {"text", "current"}

removeNonHTMLProps(o) == Restrict(o, DOMAIN o \ NonHTMLProps)

OverflowListDefaultProps ==
    [collapseFrom |-> Some("start"), minVisibleItems |-> Some(0)]

-----------------------------------------------------------------------------
(* Breadcrumbs2 *)

defaultProps == [collapseFrom |-> Some("start")]

thisProps == ApplyDefaults(props, defaultProps)

(* Mutant: the computed disabled flag is written after the spread. *)
renderOverflowBreadcrumbDisabledLast(h, ref, index) ==
    LET p == h[ref]
        isClickable == Get(p, "href") # None \/ Get(p, "onClick") # None
        htmlProps == removeNonHTMLProps(p)
    IN  [type |-> "MenuItem2",
         props |-> Merge(htmlProps,
                         [disabled |-> Some(~isClickable),
                          text |-> Get(p, "text"), key |-> Some(index)])]

renderOverflowBreadcrumb(h, ref, index) ==
    LET p == h[ref]
        isClickable == Get(p, "href") # None \/ Get(p, "onClick") # None
        htmlProps == removeNonHTMLProps(p)
    IN  [type |-> "MenuItem2",
         props |-> Merge(Merge([disabled |-> Some(~isClickable)], htmlProps),
                         [text |-> Get(p, "text"), key |-> Some(index)])]

overflowElement(p, h, orderedItems) ==
    LET popoverProps == IF p.popoverProps = None THEN EmptyObj
                        ELSE p.popoverProps[1]
        menu == [type |-> "Menu",
                 children |-> [i \in 1..Len(orderedItems) |->
                     renderOverflowBreadcrumb(h, orderedItems[i], i - 1)]]
    IN  [type |-> "li",
         child |->
            [type |-> "Popover2",
             props |-> Merge(
                 [placement |-> Some(IF p.collapseFrom = Some("end")
                                     THEN "bottom-end" ELSE "bottom-start"),
                  disabled |-> Some(Len(orderedItems) = 0),
                  content |-> Some(menu)],
                 popoverProps),
             child |-> [type |-> "span",
                        className |-> BREADCRUMBS_COLLAPSED]]]

(* Mutant: the overflowed items are never reversed. *)
renderOverflowNoReverse(p, h, items) ==
    [items |-> items, element |-> overflowElement(p, h, items)]

(* Mutant: items.reverse() without the slice(), reversing the array handed in. *)
renderOverflowInPlace(p, h, items) ==
    LET orderedItems == IF p.collapseFrom = Some("start") THEN Reverse(items)
                        ELSE items
    IN  [items |-> orderedItems,
         element |-> overflowElement(p, h, orderedItems)]

(* The element returned, and the contents of the array handed in after the call. *)
renderOverflow(p, h, items) ==
    LET orderedItems == IF p.collapseFrom = Some("start") THEN Reverse(items)
                        ELSE items
    IN  [items |-> items,
         element |-> overflowElement(p, h, orderedItems)]

(* Mutant: the computed current flag is written after the spread. *)
renderBreadcrumbCurrentLast(p, h, ref, isCurrent) ==
    IF isCurrent /\ p.currentBreadcrumbRenderer # None
    THEN [type |-> "custom", renderer |-> "currentBreadcrumbRenderer",
          arg |-> ref]
    ELSE IF p.breadcrumbRenderer # None
    THEN [type |-> "custom", renderer |-> "breadcrumbRenderer", arg |-> ref]
    ELSE [type |-> "Breadcrumb",
          props |-> Merge(h[ref], [current |-> Some(isCurrent)])]

renderBreadcrumb(p, h, ref, isCurrent) ==
    IF isCurrent /\ p.currentBreadcrumbRenderer # None
    THEN [type |-> "custom", renderer |-> "currentBreadcrumbRenderer",
          arg |-> ref]
    ELSE IF p.breadcrumbRenderer # None
    THEN [type |-> "custom", renderer |-> "breadcrumbRenderer", arg |-> ref]
    ELSE [type |-> "Breadcrumb",
          props |-> Merge([current |-> Some(isCurrent)], h[ref])]

renderBreadcrumbWrapper(p, h, ref, index) ==
    LET isCurrent == Len(p.items) > 0 /\ p.items[Len(p.items)] = ref
    IN  [type |-> "li", key |-> index,
         child |-> renderBreadcrumb(p, h, ref, isCurrent)]

(* Mutant: overflowListProps is spread after every other attribute. *)
renderSpreadLast(p) ==
    LET overflowListProps == IF p.overflowListProps = None THEN EmptyObj
                             ELSE p.overflowListProps[1]
    IN  Merge(Merge([collapseFrom |-> p.collapseFrom,
                     minVisibleItems |-> p.minVisibleItems,
                     tagName |-> Some("ul")],
                    [className |-> classNames(<<Some(BREADCRUMBS),
                                          Get(overflowListProps, "className"),
                                          p.className>>),
                     items |-> Some(p.items),
                     overflowRenderer |-> Some("renderOverflow"),
                     visibleItemRenderer |-> Some("renderBreadcrumbWrapper")]),
              overflowListProps)

(* Mutant: minVisibleItems is written after the spread. *)
renderMinAfterSpread(p) ==
    LET overflowListProps == IF p.overflowListProps = None THEN EmptyObj
                             ELSE p.overflowListProps[1]
    IN  Merge(Merge([collapseFrom |-> p.collapseFrom,
                     tagName |-> Some("ul")],
                    overflowListProps),
              [minVisibleItems |-> p.minVisibleItems,
               className |-> classNames(<<Some(BREADCRUMBS),
                                          Get(overflowListProps, "className"),
                                          p.className>>),
               items |-> Some(p.items),
               overflowRenderer |-> Some("renderOverflow"),
               visibleItemRenderer |-> Some("renderBreadcrumbWrapper")])

render(p) ==
    LET overflowListProps == IF p.overflowListProps = None THEN EmptyObj
                             ELSE p.overflowListProps[1]
    IN  Merge(Merge([collapseFrom |-> p.collapseFrom,
                     minVisibleItems |-> p.minVisibleItems,
                     tagName |-> Some("ul")],
                    overflowListProps),
              [className |-> classNames(<<Some(BREADCRUMBS),
                                          Get(overflowListProps, "className"),
                                          p.className>>),
               items |-> Some(p.items),
               overflowRenderer |-> Some("renderOverflow"),
               visibleItemRenderer |-> Some("renderBreadcrumbWrapper")])

-----------------------------------------------------------------------------
(* Inputs *)

SeqsUpTo(n) == UNION {[1..m -> Refs] : m \in 0..n}

PlainDescriptor(r) == [text |-> Some(r)]

DescriptorFields ==
    [href : {Some("#")}, onClick : {Some("handler")},
     disabled : {None, Some(TRUE), Some(FALSE)},
     current : {None, Some(TRUE), Some(FALSE)}]

Descriptors(r) ==
    {Merge(PlainDescriptor(r), Restrict(f, S)) :
        f \in DescriptorFields,
        S \in SUBSET {"href", "onClick", "disabled", "current"}}

PropsOver(itemSeqs, collapses, minimums, renderers, olps, popovers, classes) ==
    [items : itemSeqs, collapseFrom : collapses, minVisibleItems : minimums,
     breadcrumbRenderer : renderers, currentBreadcrumbRenderer : renderers,
     overflowListProps : olps, popoverProps : popovers, className : classes]

OptBoundary == {None} \cup {Some(b) : b \in Boundary}

OptMinimum == {None} \cup {Some(m) : m \in 0..MaxLen}

(* No minimum, none forced visible, every item forced visible. *)
EdgeMinimum == {None, Some(0), Some(MaxLen)}

OptRenderer == {None, Some("spy")}

PlainHeap == [r \in Refs |-> PlainDescriptor(r)]

(* overflowListProps objects: a direction part, a minimum part and a rest. *)
OlpDirections ==
    {EmptyObj} \cup {[collapseFrom |-> c] : c \in OptBoundary}

OlpMinimums ==
    {EmptyObj} \cup {[minVisibleItems |-> m] : m \in {None, Some(0), Some(MaxLen)}}

OlpPassThrough ==
    [className |-> Some("overflow-list-class"), tagName |-> Some("article")]

OlpReserved ==
    [items |-> Some(<<1>>), overflowRenderer |-> Some("foreign"),
     visibleItemRenderer |-> Some("foreign")]

OlpRests ==
    {EmptyObj, OlpPassThrough, OlpReserved, Merge(OlpPassThrough, OlpReserved)}

OverflowListPropsValues ==
    {None} \cup {Some(Merge(Merge(d, m), r)) :
                    d \in OlpDirections, m \in OlpMinimums, r \in OlpRests}

PopoverPropsValues ==
    {None, Some([isOpen |-> Some(TRUE), usePortal |-> Some(FALSE)])}

-----------------------------------------------------------------------------
(* The render pass *)

Fresh ==
    /\ pc = "start"
    /\ passes = 1
    /\ olProps = EmptyObj
    /\ visible = <<>>
    /\ overflow = <<>>
    /\ rendered = <<>>
    /\ overflowEl = None
    /\ prevOverflowEl = None

(* Every items sequence, repeated references included; plain descriptors. *)
Init ==
    /\ props \in PropsOver(SeqsUpTo(MaxLen), OptBoundary, EdgeMinimum,
                            OptRenderer, {None}, {None}, {None})
    /\ heap = PlainHeap
    /\ Fresh

(* Props and overflowListProps vary; the items are the empty trail or 1..NumRefs. *)
InitProps ==
    /\ props \in PropsOver({<<>>, [i \in Refs |-> i]}, OptBoundary,
                            OptMinimum, {None}, OverflowListPropsValues,
                            {None}, {None, Some("breadcrumbs-class")})
    /\ heap = PlainHeap
    /\ Fresh

(* The descriptor behind reference 1 varies over every attribute combination. *)
InitItem ==
    /\ props \in PropsOver({<<1>>, <<1, 2>>, <<2, 1>>}, OptBoundary, {None},
                            OptRenderer, {None}, PopoverPropsValues, {None})
    /\ heap \in {[PlainHeap EXCEPT ![1] = d] : d \in Descriptors(1)}
    /\ Fresh

Render ==
    /\ pc = "start"
    /\ olProps' = ApplyDefaults(render(thisProps), OverflowListDefaultProps)
    /\ pc' = "rendered"
    /\ UNCHANGED <<props, heap, passes, visible, overflow, rendered,
                   overflowEl, prevOverflowEl>>

SubSeqOrEmpty(s, m, n) == IF m > n THEN <<>> ELSE SubSeq(s, m, n)

Partition(k) ==
    /\ pc = "rendered"
    /\ LET items == olProps.items[1]
           n == Len(items)
       IN  /\ k \in 0..n
           /\ k >= Min(olProps.minVisibleItems[1], n)
           /\ IF passes = 1
              THEN IF olProps.collapseFrom = Some("start")
                   THEN /\ overflow' = SubSeqOrEmpty(items, 1, n - k)
                        /\ visible' = SubSeqOrEmpty(items, n - k + 1, n)
                   ELSE /\ visible' = SubSeqOrEmpty(items, 1, k)
                        /\ overflow' = SubSeqOrEmpty(items, k + 1, n)
              ELSE /\ k = Len(visible)
                   /\ UNCHANGED <<visible, overflow>>
    /\ pc' = "layout"
    /\ UNCHANGED <<props, heap, passes, olProps, rendered, overflowEl,
                   prevOverflowEl>>

OverflowFirst == olProps.collapseFrom = Some("start")

OverflowPending == Len(overflow) > 0 /\ overflowEl = None

RenderOverflowMenu ==
    /\ pc = "layout"
    /\ OverflowPending
    /\ IF OverflowFirst THEN rendered = <<>>
       ELSE Len(rendered) = Len(visible)
    /\ IF olProps.overflowRenderer = Some("renderOverflow")
       THEN LET r == renderOverflow(thisProps, heap, overflow)
            IN  /\ overflowEl' = Some(r.element)
                /\ overflow' = r.items
       ELSE /\ overflowEl' = Some([type |-> "foreign"])
            /\ UNCHANGED overflow
    /\ UNCHANGED <<props, heap, pc, passes, olProps, visible, rendered,
                   prevOverflowEl>>

RenderVisibleItem ==
    /\ pc = "layout"
    /\ Len(rendered) < Len(visible)
    /\ OverflowFirst => ~OverflowPending
    /\ LET index == Len(rendered)
           ref == visible[index + 1]
       IN  rendered' = Append(rendered,
              IF olProps.visibleItemRenderer = Some("renderBreadcrumbWrapper")
              THEN renderBreadcrumbWrapper(thisProps, heap, ref, index)
              ELSE [type |-> "foreign"])
    /\ UNCHANGED <<props, heap, pc, passes, olProps, visible, overflow,
                   overflowEl, prevOverflowEl>>

Finish ==
    /\ pc = "layout"
    /\ Len(rendered) = Len(visible)
    /\ ~OverflowPending
    /\ pc' = "done"
    /\ UNCHANGED <<props, heap, passes, olProps, visible, overflow, rendered,
                   overflowEl, prevOverflowEl>>

Rerender ==
    /\ pc = "done"
    /\ passes < MaxPasses
    /\ passes' = passes + 1
    /\ pc' = "start"
    /\ prevOverflowEl' = overflowEl
    /\ rendered' = <<>>
    /\ overflowEl' = None
    /\ UNCHANGED <<props, heap, olProps, visible, overflow>>

Next ==
    \/ Render
    \/ \E k \in 0..MaxLen : Partition(k)
    \/ RenderOverflowMenu
    \/ RenderVisibleItem
    \/ Finish
    \/ Rerender

Spec == Init /\ [][Next]_vars

SpecProps == InitProps /\ [][Next]_vars

SpecItem == InitItem /\ [][Next]_vars

-----------------------------------------------------------------------------
(* Observations on a render pass *)

NumItems == Len(props.items)

Done == pc = "done"

AllVisibleRequested ==
    /\ NumItems > 0
    /\ props.minVisibleItems # None
    /\ props.minVisibleItems[1] >= NumItems

IsWrapped(el, type) == el.type = "li" /\ el.child.type = type

MarkedCurrent(el) ==
    IsWrapped(el, "Breadcrumb") /\ Get(el.child.props, "current") = Some(TRUE)

Calls(renderer) ==
    {i \in 1..Len(rendered) :
        IsWrapped(rendered[i], "custom") /\ rendered[i].child.renderer = renderer}

LastOverflowed ==
    /\ NumItems > 0
    /\ IF olProps.collapseFrom = Some("start") THEN Len(visible) = 0
       ELSE Len(visible) < NumItems

MenuRendered == overflowEl # None /\ overflowEl[1].type = "li"

MenuEntries == overflowEl[1].child.props.content[1].children

MenuTexts == [i \in 1..Len(MenuEntries) |-> MenuEntries[i].props.text]

TextsOf(refs) == [i \in 1..Len(refs) |-> Get(heap[refs[i]], "text")]

EntryDisabled(e) == Get(e.props, "disabled") = Some(TRUE)

(* The descriptor an entry was built from: labels are unique per descriptor. *)
EntrySource(e) == heap[e.props.text[1]]

-----------------------------------------------------------------------------
(* Claims *)

(* C1: with every item requested visible and no custom renderers, exactly  *)
(* one rendered breadcrumb is marked current, the one at the last index,   *)
(* for every items sequence, repeated descriptors included.                *)
C1_OnlyLastCurrent ==
    (Done /\ AllVisibleRequested /\ props.breadcrumbRenderer = None
          /\ props.currentBreadcrumbRenderer = None)
    => /\ Len(rendered) = NumItems
       /\ \A i \in 1..Len(rendered) :
             MarkedCurrent(rendered[i]) <=> i = NumItems

(* C2: with every item visible, currentBreadcrumbRenderer is invoked       *)
(* exactly once and only with the final descriptor; breadcrumbRenderer     *)
(* supplied with it is invoked items.length - 1 times and never with the   *)
(* final descriptor; breadcrumbRenderer alone is invoked items.length      *)
(* times, once for the final descriptor.                                   *)
C2_RendererSelection ==
    (Done /\ AllVisibleRequested)
    => LET current == Calls("currentBreadcrumbRenderer")
           generic == Calls("breadcrumbRenderer")
           final == props.items[NumItems]
       IN  /\ props.currentBreadcrumbRenderer # None
                => /\ Cardinality(current) = 1
                   /\ \A i \in current : rendered[i].child.arg = final
           /\ (props.currentBreadcrumbRenderer # None
                 /\ props.breadcrumbRenderer # None)
                => /\ Cardinality(generic) = NumItems - 1
                   /\ \A i \in generic : rendered[i].child.arg # final
           /\ (props.currentBreadcrumbRenderer = None
                 /\ props.breadcrumbRenderer # None)
                => /\ Cardinality(generic) = NumItems
                   /\ NumItems \in generic

(* C3: the overflow menu lists the overflowed subsequence reversed when    *)
(* collapseFrom is START and in the given order when it is END, one entry  *)
(* per overflowed descriptor.                                              *)
C3_MenuOrder ==
    MenuRendered
    => MenuTexts = IF thisProps.collapseFrom = Some("start")
                   THEN Reverse(TextsOf(overflow))
                   ELSE TextsOf(overflow)

C3_Witness ==
    /\ props.items = <<1, 2, 3>>
    /\ thisProps.collapseFrom = Some("start")
    /\ visible = <<3>>
    /\ MenuRendered
    /\ MenuTexts = <<Some(2), Some(1)>>

(* C4 as stated: an overflow-menu entry is disabled exactly when its       *)
(* descriptor has neither href nor onClick, whatever else it carries.      *)
C4_DisabledIffNotClickable ==
    MenuRendered
    => \A i \in 1..Len(MenuEntries) :
          LET d == EntrySource(MenuEntries[i])
          IN  EntryDisabled(MenuEntries[i])
                <=> (Get(d, "href") = None /\ Get(d, "onClick") = None)

(* C4 amended: an overflow-menu entry is disabled exactly when its         *)
(* descriptor's own disabled attribute is true, or the descriptor has no   *)
(* disabled attribute and has neither href nor onClick.                    *)
C4_DisabledUnlessOverridden ==
    MenuRendered
    => \A i \in 1..Len(MenuEntries) :
          LET d == EntrySource(MenuEntries[i])
          IN  EntryDisabled(MenuEntries[i])
                <=> IF "disabled" \in DOMAIN d THEN d.disabled = Some(TRUE)
                    ELSE Get(d, "href") = None /\ Get(d, "onClick") = None

C4_Witness ==
    /\ MenuRendered
    /\ \E i \in 1..Len(MenuEntries) :
          LET d == EntrySource(MenuEntries[i])
          IN  /\ "disabled" \in DOMAIN d
              /\ d.disabled = Some(FALSE)
              /\ Get(d, "href") = None
              /\ Get(d, "onClick") = None
              /\ ~EntryDisabled(MenuEntries[i])

(* C5 as stated: the default breadcrumb element's current flag always      *)
(* equals the computed isCurrent, whatever current field the descriptor    *)
(* carries.                                                                *)
C5_ComputedCurrentWins ==
    \A i \in 1..Len(rendered) :
        IsWrapped(rendered[i], "Breadcrumb")
        => Get(rendered[i].child.props, "current")
             = Some(props.items[NumItems] = visible[i])

(* C5 amended: the default breadcrumb element's current flag is the        *)
(* descriptor's own current field when the descriptor has one, and the     *)
(* computed isCurrent otherwise.                                           *)
C5_DescriptorCurrentWins ==
    \A i \in 1..Len(rendered) :
        IsWrapped(rendered[i], "Breadcrumb")
        => Get(rendered[i].child.props, "current")
             = IF "current" \in DOMAIN heap[visible[i]]
               THEN heap[visible[i]].current
               ELSE Some(props.items[NumItems] = visible[i])

C5_Witness ==
    \E i \in 1..Len(rendered) :
        /\ IsWrapped(rendered[i], "Breadcrumb")
        /\ props.items[NumItems] # visible[i]
        /\ Get(heap[visible[i]], "current") = Some(TRUE)
        /\ MarkedCurrent(rendered[i])

(* C6: whatever overflowListProps carries, OverflowList receives the       *)
(* controller's items, renderOverflow and renderBreadcrumbWrapper.         *)
C6_ReservedFields ==
    pc \in {"rendered", "layout", "done"}
    => /\ olProps.items = Some(props.items)
       /\ olProps.overflowRenderer = Some("renderOverflow")
       /\ olProps.visibleItemRenderer = Some("renderBreadcrumbWrapper")

C6_Witness ==
    /\ pc = "rendered"
    /\ props.overflowListProps # None
    /\ {"items", "overflowRenderer", "visibleItemRenderer"}
          \subseteq DOMAIN props.overflowListProps[1]
    /\ props.items # <<>>
    /\ olProps.items = Some(props.items)

(* C7 as stated: OverflowList always receives the controller's             *)
(* minVisibleItems prop unchanged, 0 when the caller supplies none.        *)
C7_MinimumForwarded ==
    pc \in {"rendered", "layout", "done"}
    => olProps.minVisibleItems
         = IF props.minVisibleItems = None THEN Some(0)
           ELSE props.minVisibleItems

(* C7 amended: OverflowList receives overflowListProps.minVisibleItems     *)
(* when overflowListProps has that key, the controller's minVisibleItems   *)
(* prop otherwise, and 0 when the value so chosen is undefined.            *)
C7_MinimumOverridable ==
    pc \in {"rendered", "layout", "done"}
    => LET olp == IF props.overflowListProps = None THEN EmptyObj
                  ELSE props.overflowListProps[1]
           chosen == IF "minVisibleItems" \in DOMAIN olp
                     THEN olp.minVisibleItems
                     ELSE props.minVisibleItems
       IN  olProps.minVisibleItems = IF chosen = None THEN Some(0) ELSE chosen

C7_Witness ==
    /\ pc = "rendered"
    /\ props.minVisibleItems = Some(0)
    /\ props.overflowListProps # None
    /\ Get(props.overflowListProps[1], "minVisibleItems") = Some(MaxLen)
    /\ olProps.minVisibleItems = Some(MaxLen)

(* C8: the custom renderers are invoked only on the visible path, never   *)
(* for the overflow menu; when the last descriptor is overflowed it is a   *)
(* plain menu entry with no current flag and currentBreadcrumbRenderer is  *)
(* not invoked in that pass.                                               *)
C8_RenderersOnlyForVisible ==
    Done
    => /\ MenuRendered
             => \A i \in 1..Len(MenuEntries) : MenuEntries[i].type = "MenuItem2"
       /\ LastOverflowed
             => /\ Calls("currentBreadcrumbRenderer") = {}
                /\ MenuRendered
                /\ \A i \in 1..Len(MenuEntries) :
                      "current" \notin DOMAIN MenuEntries[i].props

(* C9: the direction that orders the overflow menu is the direction        *)
(* OverflowList collapses from: the menu is reversed exactly when          *)
(* OverflowList collapses from START.                                      *)
C9_DirectionsAgree ==
    MenuRendered
    => /\ thisProps.collapseFrom = olProps.collapseFrom
       /\ MenuTexts = IF olProps.collapseFrom = Some("start")
                      THEN Reverse(TextsOf(overflow))
                      ELSE TextsOf(overflow)

(* C10: renderOverflow leaves the array it is handed and the items         *)
(* unchanged, and successive passes with the same props and partition      *)
(* produce the same overflow menu.                                         *)
C10_NoAccumulation ==
    [][/\ (overflowEl = None /\ overflowEl' # None)
            => (overflow' = overflow /\ props' = props)
       /\ (overflowEl' # None /\ prevOverflowEl' # None)
            => overflowEl' = prevOverflowEl']_vars

C10_Witness ==
    /\ passes = MaxPasses
    /\ thisProps.collapseFrom = Some("start")
    /\ Len(overflow) >= 2
    /\ overflow[1] # overflow[2]
    /\ MenuRendered
    /\ prevOverflowEl = overflowEl

====
